---- MODULE Spec2Model ----
(***************************************************************************)
(* Model of the fraud-scoring service of src/main.py: the check_fraud      *)
(* handler, the two detectors it calls, the startup seeding of the account *)
(* blacklist, and the three pieces of state they share (transaction        *)
(* history, account blacklist, last-known-location map).                   *)
(*                                                                         *)
(* Deployment modelled: the application module is loaded by each server    *)
(* process (Workers).  The MongoDB collections are shared by all           *)
(* processes; the module globals (last_known_location) belong to one       *)
(* process.  check_fraud is an `async def` without any await, so inside    *)
(* one process a request runs to completion before the next one starts;    *)
(* requests of different processes interleave at their database calls.     *)
(*                                                                         *)
(* Specifications:                                                         *)
(*   Spec         requests and startups of two processes interleave        *)
(*   SpecSeq      two processes, requests and startups do not overlap      *)
(*   SpecRace     two requests of one card on two processes interleave     *)
(*   SpecGeo      one process, one card: locations and hours               *)
(*   SpecAnomaly  check_fraud on a stored history: the anomaly window      *)
(***************************************************************************)
EXTENDS Integers, Sequences, FiniteSets, TLC

\* ------------------------------------------------------------------ bounds
\* Number of check_fraud requests received over a behaviour in which
\* requests do not overlap (SpecSeq).
MaxReq == 3
\* Number of check_fraud requests received over a behaviour in which the
\* requests of different processes interleave (Spec).
MaxConcReq == 2

Workers == {"w1", "w2"}

\* --------------------------------------------------- program constants
\* location_lookup, with the pairwise geodesic distances (km, rounded) of
\* its coordinates in place of the coordinates themselves.
location_lookup == {"Chennai", "Mumbai", "Delhi", "Bangalore"}

BLACKLISTED_IPS == {"203.0.113.5", "198.51.100.10", "45.33.32.156"}

startup_blacklisted_accounts == <<"9876543210", "1111222233">>

window_size == 5
\* z_thresh = 2.5, kept as the fraction z_thresh_num / z_thresh_den
z_thresh_num == 5
z_thresh_den == 2
max_km == 500

\* geodesic(a, b).km for the entries of location_lookup
geodesic(a, b) ==
    LET p == {a, b} IN
    IF a = b THEN 0
    ELSE IF p = {"Chennai", "Mumbai"} THEN 1033
    ELSE IF p = {"Chennai", "Delhi"} THEN 1754
    ELSE IF p = {"Chennai", "Bangalore"} THEN 290
    ELSE IF p = {"Mumbai", "Delhi"} THEN 1148
    ELSE IF p = {"Mumbai", "Bangalore"} THEN 845
    ELSE 1740   \* Delhi - Bangalore

\* ------------------------------------------------------------ strptime
\* A timestamp string is a sequence of one-character strings.
Digits == {"0", "1", "2", "3", "4", "5", "6", "7", "8", "9"}

DigitVal(c) ==
    CASE c = "0" -> 0 [] c = "1" -> 1 [] c = "2" -> 2 [] c = "3" -> 3
      [] c = "4" -> 4 [] c = "5" -> 5 [] c = "6" -> 6 [] c = "7" -> 7
      [] c = "8" -> 8 [] c = "9" -> 9

\* number of consecutive characters of s from position i that are in set cs
RECURSIVE Run(_, _, _)
Run(s, i, cs) ==
    IF i <= Len(s) /\ s[i] \in cs THEN 1 + Run(s, i + 1, cs) ELSE 0

\* value of the n digits of s starting at position i
RECURSIVE Num(_, _, _)
Num(s, i, n) ==
    IF n = 0 THEN 0 ELSE 10 * Num(s, i, n - 1) + DigitVal(s[i + n - 1])

DaysInMonth(y, m) ==
    IF m \in {4, 6, 9, 11} THEN 30
    ELSE IF m = 2
         THEN IF (y % 4 = 0 /\ y % 100 # 0) \/ y % 400 = 0 THEN 29 ELSE 28
         ELSE 31

\* the result of a failed parse (strptime raises ValueError)
ValueError == <<>>

\* A one- or two-digit field of s at position i followed by the character
\* sep: <<value, position after the separator>>, or <<>> if the field does
\* not match.  This is what the directives %m %d %H %M %S accept: the
\* zero-padded form and the unpadded one.
Field(s, i, sep) ==
    LET n == Run(s, i, Digits) IN
    IF n \notin {1, 2} THEN <<>>
    ELSE IF sep = "" THEN (IF i + n = Len(s) + 1 THEN <<Num(s, i, n), i + n>> ELSE <<>>)
    ELSE IF sep = " "
         THEN LET ws == Run(s, i + n, {" "}) IN
              IF ws >= 1 THEN <<Num(s, i, n), i + n + ws>> ELSE <<>>
    ELSE IF i + n <= Len(s) /\ s[i + n] = sep THEN <<Num(s, i, n), i + n + 1>>
    ELSE <<>>

\* The day directive %d also accepts a space followed by one digit 1-9.
DayField(s, i) ==
    IF i + 1 <= Len(s) /\ s[i] = " " /\ s[i + 1] \in Digits \ {"0"}
    THEN LET ws == Run(s, i + 2, {" "}) IN
         IF ws >= 1 THEN <<DigitVal(s[i + 1]), i + 2 + ws>> ELSE <<>>
    ELSE Field(s, i, " ")

\* datetime.strptime(s, "%Y-%m-%d %H:%M:%S"): the datetime as
\* <<year, month, day, hour, minute, second>>, or ValueError.
strptime(s) ==
    IF ~(Run(s, 1, Digits) = 4 /\ Len(s) >= 5 /\ s[5] = "-") THEN ValueError
    ELSE
    LET Y  == Num(s, 1, 4)
        mo == Field(s, 6, "-")
    IN  IF mo = <<>> THEN ValueError ELSE
    LET d  == DayField(s, mo[2])
    IN  IF d = <<>> THEN ValueError ELSE
    LET h  == Field(s, d[2], ":")
    IN  IF h = <<>> THEN ValueError ELSE
    LET mi == Field(s, h[2], ":")
    IN  IF mi = <<>> THEN ValueError ELSE
    LET se == Field(s, mi[2], "")
    IN  IF se = <<>> THEN ValueError
        ELSE IF /\ mo[1] \in 1..12
                /\ d[1] \in 1..DaysInMonth(Y, mo[1])
                /\ h[1] \in 0..23
                /\ mi[1] \in 0..59
                /\ se[1] \in 0..59
             THEN <<Y, mo[1], d[1], h[1], mi[1], se[1]>>
             ELSE ValueError

hour(dt) == dt[4]

\* dt1 < dt2 for two datetimes
RECURSIVE TupleLess(_, _, _)
TupleLess(a, b, i) ==
    IF i > Len(a) THEN FALSE
    ELSE IF a[i] # b[i] THEN a[i] < b[i]
    ELSE TupleLess(a, b, i + 1)

Before(dt1, dt2) == TupleLess(dt1, dt2, 1)

\* ------------------------------------------------------------ detectors
RECURSIVE Sum(_)
Sum(xs) == IF xs = <<>> THEN 0 ELSE Head(xs) + Sum(Tail(xs))

RECURSIVE SumSq(_)
SumSq(xs) == IF xs = <<>> THEN 0 ELSE Head(xs) * Head(xs) + SumSq(Tail(xs))

\* xs[-k:]
LastK(xs, k) ==
    IF Len(xs) <= k THEN xs ELSE SubSeq(xs, Len(xs) - k + 1, Len(xs))

Amounts(txns) == [i \in 1..Len(txns) |-> txns[i].amount]

\* Transaction.amount is a float (line 55).  An amount a of the model is
\* the IEEE double nearest to a / AmountScale: the multiples of AmountScale
\* are whole numbers, exact as doubles; the other amounts (1 is 0.2, 2 is
\* 0.4) are not binary fractions.
AmountScale == 5

Whole(x) == AmountScale * x

\* The pairs <<v, n>>, over the amounts v of the inputs, for which np.mean
\* of n copies of v is not v: (0.2 + 0.2 + 0.2) / 3 is 0.20000000000000004
\* and (0.4 + 0.4 + 0.4) / 3 is 0.4000000000000001 in double arithmetic.
\* np.std of such a window is the size of that rounding error, not 0.
InexactMean == {<<1, 3>>, <<2, 3>>}

\* detect_behavioral_anomaly without the abs of line 69 and with the
\* difference taken as mean - current: only amounts below the mean flag.
detect_behavioral_anomaly_BelowOnly(past_txns, current_amount) ==
    LET amounts == LastK(Amounts(past_txns), window_size)
        n == Len(amounts)
        S == Sum(amounts)
        Q == SumSq(amounts)
        varN == n * Q - S * S
        devN == S - n * current_amount
    IN  IF n < 2 THEN FALSE
        ELSE IF varN = 0
             THEN <<amounts[1], n>> \in InexactMean /\ current_amount < amounts[1]
        ELSE /\ devN > 0
             /\ z_thresh_den * z_thresh_den * devN * devN
                    > z_thresh_num * z_thresh_num * varN

\* detect_behavioral_anomaly(past_txns, current_amount).  With n amounts of
\* sum S and sum of squares Q: mean = S/n, std^2 = (n*Q - S^2)/n^2, so
\* |current - mean| / std > num/den  iff
\* den^2 * (n*current - S)^2 > num^2 * (n*Q - S^2).  For a window of equal
\* amounts v, std is 0.0 and z_score is 0 when the mean is computed
\* exactly; when it is not, std is |v - mean|, some 1e-17, and z_score is
\* |current - mean| / |v - mean|: 1 for current = v and some 1e15 for any
\* other current amount.  For the amounts of the inputs the double
\* comparison of the other windows agrees with the exact one.
detect_behavioral_anomaly(past_txns, current_amount) ==
    LET amounts == LastK(Amounts(past_txns), window_size)
        n == Len(amounts)
        S == Sum(amounts)
        Q == SumSq(amounts)
        varN == n * Q - S * S
        devN == n * current_amount - S
    IN  IF n < 2 THEN FALSE
        ELSE IF varN = 0
             THEN <<amounts[1], n>> \in InexactMean /\ current_amount # amounts[1]
        ELSE z_thresh_den * z_thresh_den * devN * devN
                 > z_thresh_num * z_thresh_num * varN

\* detect_geo_drift that flags any move away from the last-known location.
detect_geo_drift_AnyMove(lkl, card_type, current_location) ==
    IF current_location \notin location_lookup THEN FALSE
    ELSE IF card_type \notin DOMAIN lkl THEN FALSE
    ELSE IF lkl[card_type] = "" \/ lkl[card_type] \notin location_lookup THEN FALSE
    ELSE geodesic(lkl[card_type], current_location) > 0

\* detect_geo_drift without the directory test of the last-known location
\* (line 80): a baseline outside the directory counts as far away.
detect_geo_drift_AnyBaseline(lkl, card_type, current_location) ==
    IF current_location \notin location_lookup THEN FALSE
    ELSE IF card_type \notin DOMAIN lkl THEN FALSE
    ELSE IF lkl[card_type] = "" THEN FALSE
    ELSE IF lkl[card_type] \notin location_lookup THEN TRUE
    ELSE geodesic(lkl[card_type], current_location) > max_km

\* detect_geo_drift that never flags.
detect_geo_drift_Never(lkl, card_type, current_location) == FALSE

\* detect_geo_drift(card_type, current_location) read against the map
\* lkl of the process that runs it.  A dict is a function whose domain is
\* the set of its keys; `not last_location` is true for a missing key and
\* for the empty string.
detect_geo_drift(lkl, card_type, current_location) ==
    IF current_location \notin location_lookup THEN FALSE
    ELSE IF card_type \notin DOMAIN lkl THEN FALSE
    ELSE IF lkl[card_type] = "" \/ lkl[card_type] \notin location_lookup THEN FALSE
    ELSE geodesic(lkl[card_type], current_location) > max_km

\* dict[key] = value
DictSet(d, key, value) ==
    [k \in DOMAIN d \cup {key} |-> IF k = key THEN value ELSE d[k]]

EmptyDict == [k \in {} |-> ""]

\* --------------------------------------------------------------- inputs
TsDay     == <<"2","0","2","5","-","0","8","-","0","7"," ","1","6",":","5","5",":","0","0">>
TsEarlier == <<"2","0","2","5","-","0","8","-","0","6"," ","0","4",":","0","0",":","0","0">>
\* unpadded month, day, hour, minute, second: 2025-8-7 2:5:0
TsNight   == <<"2","0","2","5","-","8","-","7"," ","2",":","5",":","0">>
\* ISO separator: 2025-08-07T16:55:00
TsIso     == <<"2","0","2","5","-","0","8","-","0","7","T","1","6",":","5","5",":","0","0">>
\* an hour before midnight: 2025-08-07 23:30:00
TsLate    == <<"2","0","2","5","-","0","8","-","0","7"," ","2","3",":","3","0",":","0","0">>
\* a day that does not exist: 2025-02-30 10:00:00
TsFeb30   == <<"2","0","2","5","-","0","2","-","3","0"," ","1","0",":","0","0",":","0","0">>

\* amount is held in units of 1 / AmountScale
Transaction(id, ts, amount, location, card_type, recipient, sender) ==
    [transaction_id |-> id, timestamp |-> ts, amount |-> amount,
     location |-> location, card_type |-> card_type, currency |-> "INR",
     recipient_account_number |-> recipient,
     sender_account_number |-> sender]

\* The requests a client may send: a transaction and the client address
\* get_client_ip resolves for it.
Requests ==
    { [txn |-> Transaction("t1", TsEarlier, 20, "Chennai", "visa", "acc-A", "acc-B"),
       ip |-> "10.0.0.1"],
      [txn |-> Transaction("t2", TsNight, 200, "Delhi", "visa", "9876543210", "1111222233"),
       ip |-> "203.0.113.5"],
      [txn |-> Transaction("t3", TsDay, 10, "Chennai", "visa", "acc-A", "acc-B"),
       ip |-> "203.0.113.5"],
      [txn |-> Transaction("t4", TsIso, 10, "Chennai", "visa", "acc-A", "acc-B"),
       ip |-> "10.0.0.1"],
      [txn |-> Transaction("t5", TsDay, 200, "Delhi", "visa", "acc-B", "acc-C"),
       ip |-> "10.0.0.1"],
      [txn |-> Transaction("t6", TsFeb30, 10, "Paris", "master", "acc-C", "acc-A"),
       ip |-> "203.0.113.5"],
      [txn |-> Transaction("t7", TsDay, 10, "Paris", "master", "acc-C", "acc-C"),
       ip |-> "10.0.0.1"] }

\* ---------------------------------------------------------------- state
VARIABLES
    collection,            \* db[COLLECTION_NAME]: documents in insertion order
    blacklist_collection,  \* db["blacklist"]: documents in insertion order
    last_known_location,   \* per process: the module global dict
    pc,                    \* per process: the statement it is about to run
    local,                 \* per process: the locals of the running request
    nreq                   \* requests received so far

vars == <<collection, blacklist_collection, last_known_location, pc, local,
          nreq>>

NoTxn == Transaction("", <<>>, 0, "", "", "", "")

\* The locals of a handler that is not running.  req numbers the request
\* (0: none); fired, at and before are history variables: the checks that
\* fired, the statement at which the request failed, and the process's
\* last_known_location when the request was received.
NoLocals ==
    [txn |-> NoTxn, client_ip |-> "", now |-> <<>>, reasons |-> <<>>,
     is_fraud |-> FALSE, past_txns |-> <<>>, account |-> 1, req |-> 0,
     fired |-> {}, at |-> "", before |-> EmptyDict]

\* datetime.now() of the seeding, as a fixed instant
WallClock == <<2025, 1, 1, 0, 0, 0>>

Init ==
    /\ collection = <<>>
    /\ blacklist_collection = <<>>
    /\ last_known_location = [w \in Workers |-> EmptyDict]
    /\ pc = [w \in Workers |-> "seed_find"]
    /\ local = [w \in Workers |-> NoLocals]
    /\ nreq = 0

\* ------------------------------------------------------ store operations
\* blacklist_collection.find_one({"type": "account", "value": value})
find_one(value) ==
    \E i \in 1..Len(blacklist_collection) :
        /\ blacklist_collection[i].type = "account"
        /\ blacklist_collection[i].value = value

\* coll.insert_one(doc)
insert_one(coll, doc) == Append(coll, doc)

\* stable insertion of doc into txns, sorted by timestamp ascending
RECURSIVE SortedInsert(_, _)
SortedInsert(txns, doc) ==
    IF txns = <<>> THEN <<doc>>
    ELSE IF Before(doc.timestamp, Head(txns).timestamp) THEN <<doc>> \o txns
    ELSE <<Head(txns)>> \o SortedInsert(Tail(txns), doc)

\* SortByTimestamp that leaves the documents in their order of arrival.
SortByTimestamp_Arrival(txns) == txns

RECURSIVE SortByTimestamp(_)
SortByTimestamp(txns) ==
    IF txns = <<>> THEN <<>>
    ELSE SortedInsert(SortByTimestamp(SubSeq(txns, 1, Len(txns) - 1)),
                      txns[Len(txns)])

\* list(collection.find({"card_type": card_type}).sort("timestamp", 1))
find_sorted(card_type) ==
    SortByTimestamp(SelectSeq(collection, LAMBDA d : d.card_type = card_type))

\* ----------------------------------------------------------- the checks
\* A reason string is the sequence of its literal part and, for an
\* f-string, the value formatted into it.
ReasonIp(ip)         == <<"Blacklisted IP Address: ", ip>>
ReasonRecipient(acc) == <<"Blacklisted Recipient Account: ", acc>>
ReasonSender(acc)    == <<"Blacklisted Sender Account: ", acc>>
ReasonOddHour        == <<"Transaction During Odd Hours (12 AM - 4 AM)">>
ReasonAnomaly        == <<"Abnormal Amount (Behavioral)">>
ReasonGeoDrift       == <<"Geo Drift Detected">>

\* reasons.append(reason); is_fraud = True
Flag(f, check, reason) ==
    [f EXCEPT !.reasons = Append(@, reason), !.is_fraud = TRUE,
              !.fired = @ \cup {check}]

\* CheckIp that appends the reason without setting the verdict.
CheckIp_NoVerdict(f) ==
    IF f.client_ip \in BLACKLISTED_IPS
    THEN [f EXCEPT !.reasons = Append(@, ReasonIp(f.client_ip)),
                   !.fired = @ \cup {"ip"}]
    ELSE f


CheckIp(f) ==
    IF f.client_ip \in BLACKLISTED_IPS
    THEN Flag(f, "ip", ReasonIp(f.client_ip)) ELSE f

\* CheckRecipient that looks the account up among the entries written by
\* the startup seeding only.
CheckRecipient_SeededOnly(f) ==
    IF \E i \in 1..Len(blacklist_collection) :
           /\ blacklist_collection[i].value = f.txn.recipient_account_number
           /\ blacklist_collection[i].by = 0
    THEN Flag(f, "recipient", ReasonRecipient(f.txn.recipient_account_number))
    ELSE f

CheckRecipient(f) ==
    IF find_one(f.txn.recipient_account_number)
    THEN Flag(f, "recipient", ReasonRecipient(f.txn.recipient_account_number))
    ELSE f

\* CheckSender that is skipped once an earlier check has fired.
CheckSender_EarlyExit(f) ==
    IF ~f.is_fraud /\ find_one(f.txn.sender_account_number)
    THEN Flag(f, "sender", ReasonSender(f.txn.sender_account_number))
    ELSE f


CheckSender(f) ==
    IF find_one(f.txn.sender_account_number)
    THEN Flag(f, "sender", ReasonSender(f.txn.sender_account_number))
    ELSE f

\* CheckOddHour with the bound at 4 inclusive.
CheckOddHour_Inclusive(f) ==
    IF 0 <= hour(f.now) /\ hour(f.now) <= 4
    THEN Flag(f, "odd_hour", ReasonOddHour) ELSE f

CheckOddHour(f) ==
    IF 0 <= hour(f.now) /\ hour(f.now) < 4
    THEN Flag(f, "odd_hour", ReasonOddHour) ELSE f

CheckAnomaly(f) ==
    IF detect_behavioral_anomaly(f.past_txns, f.txn.amount)
    THEN Flag(f, "anomaly", ReasonAnomaly) ELSE f

CheckGeoDrift(f, lkl) ==
    IF detect_geo_drift(lkl, f.txn.card_type, f.txn.location)
    THEN Flag(f, "geo_drift", ReasonGeoDrift) ELSE f

\* UpdatedLocation that writes the location whatever the verdict.
UpdatedLocation_Always(lkl, f) ==
    DictSet(lkl, f.txn.card_type, f.txn.location)

\* if not is_fraud: last_known_location[txn.card_type] = txn.location
UpdatedLocation(lkl, f) ==
    IF ~f.is_fraud THEN DictSet(lkl, f.txn.card_type, f.txn.location) ELSE lkl

\* the document check_fraud stores for the transaction
StoredTransaction(f) ==
    [transaction_id |-> f.txn.transaction_id, timestamp |-> f.now,
     amount |-> f.txn.amount, location |-> f.txn.location,
     card_type |-> f.txn.card_type, currency |-> f.txn.currency,
     recipient_account |-> f.txn.recipient_account_number,
     sender_account |-> f.txn.sender_account_number,
     client_ip |-> f.client_ip, is_fraud |-> f.is_fraud,
     fraud_reason |-> f.reasons, req |-> f.req]

\* a blacklist document; by is a history field: the request that wrote it,
\* 0 for the seeding
BlacklistEntry(value, reason, timestamp, by) ==
    [type |-> "account", value |-> value, reason |-> reason,
     timestamp |-> timestamp, by |-> by]

\* [txn.recipient_account_number, txn.sender_account_number]
Accounts(f) == <<f.txn.recipient_account_number, f.txn.sender_account_number>>

\* ------------------------------------------------- startup (lines 41-50)
\* `if not blacklist_collection.find_one(...)` for the account at index
\* local[w].account of startup_blacklisted_accounts
AfterSeed(w, i) ==
    IF i < Len(startup_blacklisted_accounts)
    THEN /\ pc' = [pc EXCEPT ![w] = "seed_find"]
         /\ local' = [local EXCEPT ![w].account = i + 1]
    ELSE /\ pc' = [pc EXCEPT ![w] = "idle"]
         /\ local' = [local EXCEPT ![w] = NoLocals]

SeedFind(w) ==
    /\ pc[w] = "seed_find"
    /\ LET i == local[w].account IN
       IF find_one(startup_blacklisted_accounts[i])
       THEN AfterSeed(w, i)
       ELSE /\ pc' = [pc EXCEPT ![w] = "seed_insert"]
            /\ UNCHANGED local
    /\ UNCHANGED <<collection, blacklist_collection, last_known_location, nreq>>

SeedInsert(w) ==
    /\ pc[w] = "seed_insert"
    /\ LET i == local[w].account IN
       /\ blacklist_collection' =
              insert_one(blacklist_collection,
                         BlacklistEntry(startup_blacklisted_accounts[i],
                                        <<<<"Predefined blacklist">>>>,
                                        WallClock, 0))
       /\ AfterSeed(w, i)
    /\ UNCHANGED <<collection, last_known_location, nreq>>

\* The process is stopped and started again: the module globals are
\* re-initialised and the seeding runs again; the database is kept.
Restart(w) ==
    /\ pc[w] = "idle"
    /\ last_known_location' = [last_known_location EXCEPT ![w] = EmptyDict]
    /\ pc' = [pc EXCEPT ![w] = "seed_find"]
    /\ local' = [local EXCEPT ![w] = NoLocals]
    /\ UNCHANGED <<collection, blacklist_collection, nreq>>

\* Receive that falls back to a default instant when the timestamp does not
\* parse, and goes on with the checks.
Receive_Lenient(w, r, max) ==
    /\ pc[w] = "idle"
    /\ nreq < max
    /\ nreq' = nreq + 1
    /\ LET parsed == strptime(r.txn.timestamp)
           now == IF parsed = ValueError THEN WallClock ELSE parsed
           f == [NoLocals EXCEPT !.txn = r.txn, !.client_ip = r.ip,
                                 !.req = nreq + 1, !.now = now,
                                 !.before = last_known_location[w]]
       IN  /\ pc' = [pc EXCEPT ![w] = "find_recipient"]
           /\ local' = [local EXCEPT ![w] = CheckIp(f)]
    /\ UNCHANGED <<collection, blacklist_collection, last_known_location>>

\* ------------------------------------------- check_fraud (lines 95-166)
\* lines 96-106: the request is received, the timestamp parsed, the client
\* address resolved and checked
Receive(w, r, max) ==
    /\ pc[w] = "idle"
    /\ nreq < max
    /\ nreq' = nreq + 1
    /\ LET now == strptime(r.txn.timestamp)
           f == [NoLocals EXCEPT !.txn = r.txn, !.client_ip = r.ip,
                                 !.req = nreq + 1,
                                 !.before = last_known_location[w]]
       IN  IF now = ValueError
           THEN /\ pc' = [pc EXCEPT ![w] = "failed"]
                /\ local' = [local EXCEPT ![w] = [f EXCEPT !.at = "strptime"]]
           ELSE /\ pc' = [pc EXCEPT ![w] = "find_recipient"]
                /\ local' = [local EXCEPT ![w] = CheckIp([f EXCEPT !.now = now])]
    /\ UNCHANGED <<collection, blacklist_collection, last_known_location>>

\* lines 108-111
FindRecipient(w) ==
    /\ pc[w] = "find_recipient"
    /\ local' = [local EXCEPT ![w] = CheckRecipient(@)]
    /\ pc' = [pc EXCEPT ![w] = "find_sender"]
    /\ UNCHANGED <<collection, blacklist_collection, last_known_location, nreq>>

\* lines 113-121
FindSender(w) ==
    /\ pc[w] = "find_sender"
    /\ local' = [local EXCEPT ![w] = CheckOddHour(CheckSender(@))]
    /\ pc' = [pc EXCEPT ![w] = "find_history"]
    /\ UNCHANGED <<collection, blacklist_collection, last_known_location, nreq>>

\* FindHistory on a history to which the current transaction has already
\* been appended.
FindHistory_SeesItself(w) ==
    /\ pc[w] = "find_history"
    /\ LET mine == StoredTransaction(local[w])
           past == SortByTimestamp(
                       SelectSeq(Append(collection, mine),
                                 LAMBDA d : d.card_type = local[w].txn.card_type))
           f == [local[w] EXCEPT !.past_txns = past]
           g == IF detect_behavioral_anomaly(past, f.txn.amount)
                THEN [f EXCEPT !.reasons = Append(@, <<"Abnormal Amount (Behavioral)">>),
                               !.is_fraud = TRUE, !.fired = @ \cup {"anomaly"}]
                ELSE f
           h == IF detect_geo_drift(last_known_location[w], f.txn.card_type,
                                    f.txn.location)
                THEN [g EXCEPT !.reasons = Append(@, <<"Geo Drift Detected">>),
                               !.is_fraud = TRUE, !.fired = @ \cup {"geo_drift"}]
                ELSE g
       IN  local' = [local EXCEPT ![w] = h]
    /\ pc' = [pc EXCEPT ![w] = "update_location"]
    /\ UNCHANGED <<collection, blacklist_collection, last_known_location, nreq>>

\* lines 123-134
FindHistory(w) ==
    /\ pc[w] = "find_history"
    /\ LET f == [local[w] EXCEPT !.past_txns = find_sorted(local[w].txn.card_type)]
       IN  local' = [local EXCEPT
                       ![w] = CheckGeoDrift(CheckAnomaly(f), last_known_location[w])]
    /\ pc' = [pc EXCEPT ![w] = "update_location"]
    /\ UNCHANGED <<collection, blacklist_collection, last_known_location, nreq>>

\* UpdateLocation after which a fraud verdict goes to the blacklist update
\* without the history append.
UpdateLocation_SkipStore(w) ==
    /\ pc[w] = "update_location"
    /\ last_known_location' =
           [last_known_location EXCEPT ![w] = UpdatedLocation(@, local[w])]
    /\ pc' = [pc EXCEPT ![w] = IF local[w].is_fraud THEN "bl_find" ELSE "insert_txn"]
    /\ UNCHANGED <<collection, blacklist_collection, local, nreq>>

\* UpdateLocation on a map that all processes share: the write lands in
\* the map of every process.
UpdateLocation_Shared(w) ==
    /\ pc[w] = "update_location"
    /\ last_known_location' =
           [p \in Workers |-> UpdatedLocation(last_known_location[p], local[w])]
    /\ pc' = [pc EXCEPT ![w] = "insert_txn"]
    /\ UNCHANGED <<collection, blacklist_collection, local, nreq>>

\* lines 136-138
UpdateLocation(w) ==
    /\ pc[w] = "update_location"
    /\ last_known_location' =
           [last_known_location EXCEPT ![w] = UpdatedLocation(@, local[w])]
    /\ pc' = [pc EXCEPT ![w] = "insert_txn"]
    /\ UNCHANGED <<collection, blacklist_collection, local, nreq>>

\* AfterInsertTxn that returns without the blacklist updates.
AfterInsertTxn_Return(f) == "returned"

\* AfterInsertTxn that runs the blacklist updates whatever the verdict.
AfterInsertTxn_Always(f) == "bl_find"

\* where the handler goes after the history append (line 156)
AfterInsertTxn(f) == IF f.is_fraud THEN "bl_find" ELSE "returned"

\* InsertTxn as an upsert keyed by transaction_id: a stored document with
\* the same transaction_id is replaced.
InsertTxn_Upsert(w) ==
    /\ pc[w] = "insert_txn"
    /\ LET doc == StoredTransaction(local[w])
           same == {i \in 1..Len(collection) :
                        collection[i].transaction_id = doc.transaction_id}
       IN  collection' =
               IF same = {} THEN Append(collection, doc)
               ELSE [i \in 1..Len(collection) |->
                        IF i \in same THEN doc ELSE collection[i]]
    /\ pc' = [pc EXCEPT ![w] = IF local[w].is_fraud THEN "bl_find" ELSE "returned"]
    /\ UNCHANGED <<blacklist_collection, last_known_location, local, nreq>>

\* lines 140-153
InsertTxn(w) ==
    /\ pc[w] = "insert_txn"
    /\ collection' = insert_one(collection, StoredTransaction(local[w]))
    /\ pc' = [pc EXCEPT ![w] = AfterInsertTxn(local[w])]
    /\ UNCHANGED <<blacklist_collection, last_known_location, local, nreq>>

\* the next iteration of the loop of line 157, or the return of line 166
AfterAccount(w, i) ==
    IF i < Len(Accounts(local[w]))
    THEN /\ pc' = [pc EXCEPT ![w] = "bl_find"]
         /\ local' = [local EXCEPT ![w].account = i + 1]
    ELSE /\ pc' = [pc EXCEPT ![w] = "returned"]
         /\ UNCHANGED local

\* BlFind without the lookup of line 158: the entry is always inserted.
BlFind_NoLookup(w) ==
    /\ pc[w] = "bl_find"
    /\ pc' = [pc EXCEPT ![w] = "bl_insert"]
    /\ UNCHANGED <<collection, blacklist_collection, last_known_location,
                   local, nreq>>

\* line 158
BlFind(w) ==
    /\ pc[w] = "bl_find"
    /\ LET i == local[w].account IN
       IF find_one(Accounts(local[w])[i])
       THEN AfterAccount(w, i)
       ELSE /\ pc' = [pc EXCEPT ![w] = "bl_insert"]
            /\ UNCHANGED local
    /\ UNCHANGED <<collection, blacklist_collection, last_known_location, nreq>>

\* lines 159-164
BlInsert(w) ==
    /\ pc[w] = "bl_insert"
    /\ LET i == local[w].account
           f == local[w]
       IN  /\ blacklist_collection' =
                  insert_one(blacklist_collection,
                             BlacklistEntry(Accounts(f)[i], f.reasons, f.now, f.req))
           /\ AfterAccount(w, i)
    /\ UNCHANGED <<collection, last_known_location, nreq>>

\* the statements that call the database
StoreCalls ==
    {"find_recipient", "find_sender", "find_history", "insert_txn",
     "bl_find", "bl_insert"}

\* A database call raises (the store is unavailable): nothing catches the
\* exception, the call has no effect, the request fails.
StoreError(w) ==
    /\ pc[w] \in StoreCalls
    /\ pc' = [pc EXCEPT ![w] = "failed"]
    /\ local' = [local EXCEPT ![w].at = pc[w]]
    /\ UNCHANGED <<collection, blacklist_collection, last_known_location, nreq>>

\* The response (line 166, or the error of a failed request) is sent: the
\* handler's frame is gone and the process takes the next request.
Respond(w) ==
    /\ pc[w] \in {"returned", "failed"}
    /\ pc' = [pc EXCEPT ![w] = "idle"]
    /\ local' = [local EXCEPT ![w] = NoLocals]
    /\ UNCHANGED <<collection, blacklist_collection, last_known_location, nreq>>

\* The requests sent while the requests of different processes interleave.
ConcRequests ==
    {r \in Requests : r.txn.transaction_id \in {"t3", "t5"}}

Next ==
    \/ \E w \in Workers : SeedFind(w)
    \/ \E w \in Workers : SeedInsert(w)
    \/ \E w \in Workers : Restart(w)
    \/ \E w \in Workers : \E r \in ConcRequests : Receive(w, r, MaxConcReq)
    \/ \E w \in Workers : FindRecipient(w)
    \/ \E w \in Workers : FindSender(w)
    \/ \E w \in Workers : FindHistory(w)
    \/ \E w \in Workers : UpdateLocation(w)
    \/ \E w \in Workers : InsertTxn(w)
    \/ \E w \in Workers : BlFind(w)
    \/ \E w \in Workers : BlInsert(w)
    \/ \E w \in Workers : StoreError(w)
    \/ \E w \in Workers : Respond(w)

\* Requests and startups of different processes interleave.
Spec == Init /\ [][Next]_vars

\* A process that has nothing in progress: idle, or about to start.
Quiescent(w) ==
    \/ pc[w] = "idle"
    \/ pc[w] = "seed_find" /\ local[w].account = 1

\* Process w may take a step without overlapping another process's
\* request or startup.
Alone(w) == \A v \in Workers \ {w} : Quiescent(v)

NextSeq ==
    \/ \E w \in Workers : Alone(w) /\ SeedFind(w)
    \/ \E w \in Workers : Alone(w) /\ SeedInsert(w)
    \/ \E w \in Workers : Alone(w) /\ Restart(w)
    \/ \E w \in Workers : \E r \in Requests : Alone(w) /\ Receive(w, r, MaxReq)
    \/ \E w \in Workers : Alone(w) /\ FindRecipient(w)
    \/ \E w \in Workers : Alone(w) /\ FindSender(w)
    \/ \E w \in Workers : Alone(w) /\ FindHistory(w)
    \/ \E w \in Workers : Alone(w) /\ UpdateLocation(w)
    \/ \E w \in Workers : Alone(w) /\ InsertTxn(w)
    \/ \E w \in Workers : Alone(w) /\ BlFind(w)
    \/ \E w \in Workers : Alone(w) /\ BlInsert(w)
    \/ \E w \in Workers : Alone(w) /\ StoreError(w)
    \/ \E w \in Workers : Alone(w) /\ Respond(w)

\* Executions in which requests and startups do not overlap.
SpecSeq == Init /\ [][NextSeq]_vars

\* ------------------------------------------- the anomaly check, alone
\* Number of documents of the history when the behaviour starts, and
\* number of check_fraud requests received over it (SpecAnomaly).
MaxHist == 6
MaxAnomReq == 1

HistIds == <<"h1", "h2", "h3", "h4", "h5", "h6", "h7", "h8">>

\* the instant of the i-th document of a history, and an instant before
\* all of them
HistStamp(i) == <<2025, 7, i, 16, 55, 0>>
LateStamp == <<2025, 6, 30, 16, 55, 0>>

\* The document check_fraud has stored for an earlier transaction, the
\* i-th to arrive.  The transactions of amount 20 were sent between the
\* two accounts of the startup blacklist, so their verdict is fraud; the
\* others were sent between acc-A and acc-B and their verdict is not.
HistoryRecord(i, amount, timestamp) ==
    LET fraud == amount = Whole(20)
        recipient == IF fraud THEN startup_blacklisted_accounts[1] ELSE "acc-A"
        sender == IF fraud THEN startup_blacklisted_accounts[2] ELSE "acc-B"
    IN  [transaction_id |-> HistIds[i], timestamp |-> timestamp,
         amount |-> amount, location |-> "Chennai", card_type |-> "visa",
         currency |-> "INR", recipient_account |-> recipient,
         sender_account |-> sender, client_ip |-> "10.0.0.1",
         is_fraud |-> fraud,
         fraud_reason |-> IF fraud
                          THEN <<ReasonRecipient(recipient), ReasonSender(sender)>>
                          ELSE <<>>,
         req |-> 0]

\* the amounts of a history of n documents, in order of arrival: amounts
\* of 10 and 20, or n times the amount 0.2
Histories(n) ==
    [1..n -> {Whole(10), Whole(20)}] \cup {[i \in 1..n |-> 1]}

\* the account blacklist after the startup seeding
Seeded ==
    [i \in 1..Len(startup_blacklisted_accounts) |->
        BlacklistEntry(startup_blacklisted_accounts[i],
                       <<<<"Predefined blacklist">>>>, WallClock, 0)]

\* The service has stored a history of one card and its processes have
\* been started again since: the documents arrived in the order of their
\* timestamps, except that the last to arrive may carry the oldest one.
InitAnomaly ==
    /\ \E n \in 0..MaxHist : \E h \in Histories(n) : \E late \in BOOLEAN :
           collection =
               [i \in 1..n |->
                   HistoryRecord(i, h[i], IF late /\ i = n THEN LateStamp
                                          ELSE HistStamp(i))]
    /\ blacklist_collection = Seeded
    /\ last_known_location = [w \in Workers |-> EmptyDict]
    /\ pc = [w \in Workers |-> "idle"]
    /\ local = [w \in Workers |-> NoLocals]
    /\ nreq = 0

\* The requests sent to it: amounts 22, 100, 200 and 0.4 on the card of
\* the history, and 200 on another card.
AnomalyRequests ==
    { [txn |-> Transaction("a1", TsDay, Whole(22), "Chennai", "visa", "acc-A", "acc-B"),
       ip |-> "10.0.0.1"],
      [txn |-> Transaction("a2", TsDay, Whole(100), "Chennai", "visa", "acc-A", "acc-B"),
       ip |-> "10.0.0.1"],
      [txn |-> Transaction("a3", TsDay, Whole(200), "Chennai", "visa", "acc-A", "acc-B"),
       ip |-> "10.0.0.1"],
      [txn |-> Transaction("a4", TsDay, 2, "Chennai", "visa", "acc-A", "acc-B"),
       ip |-> "10.0.0.1"],
      [txn |-> Transaction("a5", TsDay, Whole(200), "Chennai", "master", "acc-A", "acc-B"),
       ip |-> "10.0.0.1"] }

NextAnomaly ==
    \/ \E w \in Workers : \E r \in AnomalyRequests :
           Alone(w) /\ Receive(w, r, MaxAnomReq)
    \/ \E w \in Workers : Alone(w) /\ FindRecipient(w)
    \/ \E w \in Workers : Alone(w) /\ FindSender(w)
    \/ \E w \in Workers : Alone(w) /\ FindHistory(w)
    \/ \E w \in Workers : Alone(w) /\ UpdateLocation(w)
    \/ \E w \in Workers : Alone(w) /\ InsertTxn(w)
    \/ \E w \in Workers : Alone(w) /\ BlFind(w)
    \/ \E w \in Workers : Alone(w) /\ BlInsert(w)
    \/ \E w \in Workers : Alone(w) /\ Respond(w)

\* check_fraud, one request at a time, on a stored history.
SpecAnomaly == InitAnomaly /\ [][NextAnomaly]_vars

\* ------------------------------- two requests of one card that overlap
\* Number of check_fraud requests received over a behaviour in which two
\* requests of one card interleave (SpecRace).
MaxRaceReq == 2

\* The requests sent: one card, from an address that is not blacklisted;
\* the one at Delhi carries the older timestamp.
RaceRequests ==
    { [txn |-> Transaction("r1", TsDay, 10, "Chennai", "visa", "acc-A", "acc-B"),
       ip |-> "10.0.0.1"],
      [txn |-> Transaction("r2", TsEarlier, 10, "Delhi", "visa", "acc-A", "acc-B"),
       ip |-> "10.0.0.1"] }

NextRace ==
    \/ \E w \in Workers : SeedFind(w)
    \/ \E w \in Workers : SeedInsert(w)
    \/ \E w \in Workers : Restart(w)
    \/ \E w \in Workers : \E r \in RaceRequests : Receive(w, r, MaxRaceReq)
    \/ \E w \in Workers : FindRecipient(w)
    \/ \E w \in Workers : FindSender(w)
    \/ \E w \in Workers : FindHistory(w)
    \/ \E w \in Workers : UpdateLocation(w)
    \/ \E w \in Workers : InsertTxn(w)
    \/ \E w \in Workers : BlFind(w)
    \/ \E w \in Workers : BlInsert(w)
    \/ \E w \in Workers : StoreError(w)
    \/ \E w \in Workers : Respond(w)

\* Requests of one card, served by different processes, interleave.
SpecRace == Init /\ [][NextRace]_vars

\* ------------------------------------- one server process, one card
\* Number of check_fraud requests received over a behaviour of a service
\* that runs as one process (SpecGeo).
MaxGeoReq == 3

\* the server process of a service that runs as one process
Main == "w1"

\* The requests sent to it: one card and one pair of accounts, from an
\* address that is not blacklisted, of one amount; at the four locations
\* of the directory and at one outside it; at the hours 2, 4, 16 and 23.
GeoRequests ==
    { [txn |-> Transaction("g1", TsEarlier, 10, "Chennai", "visa", "acc-A", "acc-B"),
       ip |-> "10.0.0.1"],
      [txn |-> Transaction("g2", TsDay, 10, "Bangalore", "visa", "acc-A", "acc-B"),
       ip |-> "10.0.0.1"],
      [txn |-> Transaction("g3", TsLate, 10, "Delhi", "visa", "acc-A", "acc-B"),
       ip |-> "10.0.0.1"],
      [txn |-> Transaction("g4", TsDay, 10, "Paris", "visa", "acc-A", "acc-B"),
       ip |-> "10.0.0.1"],
      [txn |-> Transaction("g5", TsNight, 10, "Chennai", "visa", "acc-A", "acc-B"),
       ip |-> "10.0.0.1"],
      [txn |-> Transaction("g6", TsDay, 10, "Mumbai", "visa", "acc-A", "acc-B"),
       ip |-> "10.0.0.1"] }

NextGeo ==
    \/ SeedFind(Main)
    \/ SeedInsert(Main)
    \/ Restart(Main)
    \/ \E r \in GeoRequests : Receive(Main, r, MaxGeoReq)
    \/ FindRecipient(Main)
    \/ FindSender(Main)
    \/ FindHistory(Main)
    \/ UpdateLocation(Main)
    \/ InsertTxn(Main)
    \/ BlFind(Main)
    \/ BlInsert(Main)
    \/ StoreError(Main)
    \/ Respond(Main)

\* The service runs as one process: a request runs to completion before
\* the next one starts, and every request reads and writes the same
\* last_known_location.
SpecGeo == Init /\ [][NextGeo]_vars

\* ---------------------------------------------------- claims: vocabulary
\* the history documents written by request q
RecordsOf(q) == {i \in 1..Len(collection) : collection[i].req = q}

\* the blacklist documents written by request q (0: by a seeding)
EntriesBy(q) ==
    {i \in 1..Len(blacklist_collection) : blacklist_collection[i].by = q}

\* the blacklist documents of an account
EntriesFor(value) ==
    {i \in 1..Len(blacklist_collection) : blacklist_collection[i].value = value}

\* the statements of a request after all six checks have run
AfterChecks ==
    {"update_location", "insert_txn", "bl_find", "bl_insert", "returned"}

\* ------------------------------------------------------------------- C1
\* C1 (SpecSeq): when fraud verdicts and startup seedings do not overlap,
\* the blacklist never holds two entries of one value, and no step changes
\* or removes an entry already stored, so an entry keeps the reason list
\* of the insertion that created it.
C1_OneEntryPerValue ==
    \A i, j \in 1..Len(blacklist_collection) :
        blacklist_collection[i].value = blacklist_collection[j].value => i = j

C1_EntriesKept ==
    /\ Len(blacklist_collection') >= Len(blacklist_collection)
    /\ \A i \in 1..Len(blacklist_collection) :
           blacklist_collection'[i] = blacklist_collection[i]

\* C1: one entry per value in every state, and stored entries are never
\* changed or removed by any step.
C1_AddIfAbsent == [](C1_OneEntryPerValue) /\ [][C1_EntriesKept]_vars

\* A fraud verdict has returned whose recipient was already blacklisted by
\* an earlier request with another reason list: its insertion was a no-op.
C1_Witness ==
    \E w \in Workers :
        /\ pc[w] = "returned"
        /\ local[w].is_fraud
        /\ \E i \in EntriesFor(local[w].txn.recipient_account_number) :
               /\ blacklist_collection[i].by > 0
               /\ blacklist_collection[i].by # local[w].req
               /\ blacklist_collection[i].reason # local[w].reasons

\* ------------------------------------------------------------------- C2
\* C2 (Spec): claim as stated - when fraud verdicts of different requests
\* interleave, the blacklist never holds two entries written by
\* check_fraud for one account.
C2_OneEntryUnderConcurrency ==
    \A i, j \in 1..Len(blacklist_collection) :
        /\ blacklist_collection[i].by > 0
        /\ blacklist_collection[j].by > 0
        /\ blacklist_collection[i].value = blacklist_collection[j].value
        => i = j

\* ------------------------------------------------------------------- C3
\* the reasons of the checks in S, in the order of the six checks
ReasonsInOrder(f, S) ==
    LET all == << <<"ip", ReasonIp(f.client_ip)>>,
                  <<"recipient", ReasonRecipient(f.txn.recipient_account_number)>>,
                  <<"sender", ReasonSender(f.txn.sender_account_number)>>,
                  <<"odd_hour", ReasonOddHour>>,
                  <<"anomaly", ReasonAnomaly>>,
                  <<"geo_drift", ReasonGeoDrift>> >>
        kept == SelectSeq(all, LAMBDA c : c[1] \in S)
    IN  [i \in 1..Len(kept) |-> kept[i][2]]

\* the checks whose condition holds in the current state, for the request
\* of process w
ChecksThatHold(w) ==
    LET f == local[w] IN
    {c \in {"ip", "recipient", "sender", "odd_hour", "anomaly", "geo_drift"} :
        \/ c = "ip" /\ f.client_ip \in BLACKLISTED_IPS
        \/ c = "recipient" /\ EntriesFor(f.txn.recipient_account_number) # {}
        \/ c = "sender" /\ EntriesFor(f.txn.sender_account_number) # {}
        \/ c = "odd_hour" /\ f.now[4] \in {0, 1, 2, 3}
        \/ c = "anomaly" /\ detect_behavioral_anomaly(find_sorted(f.txn.card_type),
                                                       f.txn.amount)
        \/ c = "geo_drift" /\ detect_geo_drift(last_known_location[w],
                                               f.txn.card_type, f.txn.location)}

\* C3 (SpecSeq): once the six checks of a request have run, every check
\* whose condition holds has fired and no other; the reason list is the
\* reasons of the fired checks, each once, in the order IP, recipient,
\* sender, odd hour, anomaly, geo drift; and the verdict is fraud exactly
\* when the reason list is not empty.
C3_AllChecksInOrder ==
    \A w \in Workers :
        /\ pc[w] = "update_location" => local[w].fired = ChecksThatHold(w)
        /\ pc[w] \in AfterChecks =>
               /\ local[w].reasons = ReasonsInOrder(local[w], local[w].fired)
               /\ local[w].is_fraud <=> local[w].reasons # <<>>

\* A request has returned with all six checks fired.
C3_Witness ==
    \E w \in Workers :
        /\ pc[w] = "returned"
        /\ Len(local[w].reasons) = 6

\* ------------------------------------------------------------------- C4
\* C4 (SpecSeq): once a request is past the location update, the map of
\* its process is the map at the start of the request if the verdict is
\* fraud; otherwise it is that map with the entry of the transaction's
\* card_type set to the transaction's location and every other entry as it
\* was.  Before the update the map is the one at the start.
C4_LocationFrame ==
    \A w \in Workers :
        LET f == local[w]
            lkl == last_known_location[w]
            past == \/ pc[w] \in {"insert_txn", "bl_find", "bl_insert", "returned"}
                    \/ pc[w] = "failed" /\ f.at \in {"insert_txn", "bl_find", "bl_insert"}
        IN  /\ f.req > 0 /\ ~past => lkl = f.before
            /\ past /\ f.is_fraud => lkl = f.before
            /\ past /\ ~f.is_fraud =>
                   /\ DOMAIN lkl = DOMAIN f.before \cup {f.txn.card_type}
                   /\ lkl[f.txn.card_type] = f.txn.location
                   /\ \A c \in DOMAIN f.before \ {f.txn.card_type} :
                          lkl[c] = f.before[c]

\* A non-fraud request has returned that created the entry of its card
\* while the map already held another card's entry.
C4_Witness ==
    \E w \in Workers :
        /\ pc[w] = "returned"
        /\ ~local[w].is_fraud
        /\ local[w].txn.card_type \notin DOMAIN local[w].before
        /\ DOMAIN local[w].before # {}

\* A fraud request has returned in a process whose map holds an entry for
\* its card that differs from the transaction's location.
C4_WitnessFraud ==
    \E w \in Workers :
        /\ pc[w] = "returned"
        /\ local[w].is_fraud
        /\ local[w].txn.card_type \in DOMAIN last_known_location[w]
        /\ last_known_location[w][local[w].txn.card_type] # local[w].txn.location

\* ------------------------------------------------------------------- C5
\* C5 (Spec): a request that has passed the history append has exactly one
\* document in the history, carrying its verdict and its reason list
\* (also when a document with the same transaction_id was stored before);
\* a request that has not reached the append has none; and no step changes
\* or removes a document of the history.
C5_OneRecord ==
    \A w \in Workers :
        LET f == local[w] IN
        /\ pc[w] \in {"bl_find", "bl_insert", "returned"} =>
               /\ Cardinality(RecordsOf(f.req)) = 1
               /\ \A i \in RecordsOf(f.req) :
                      /\ collection[i].is_fraud = f.is_fraud
                      /\ collection[i].fraud_reason = f.reasons
                      /\ collection[i].transaction_id = f.txn.transaction_id
        /\ f.req > 0 /\ pc[w] \in {"find_recipient", "find_sender", "find_history",
                                   "update_location", "insert_txn"} =>
               RecordsOf(f.req) = {}

C5_RecordsKept ==
    /\ Len(collection') >= Len(collection)
    /\ \A i \in 1..Len(collection) : collection'[i] = collection[i]

\* C5: one document per request past the append, and stored documents are
\* never changed or removed by any step.
C5_AppendOnly == [](C5_OneRecord) /\ [][C5_RecordsKept]_vars

\* A request has returned whose document shares its transaction_id with a
\* document stored before it.
C5_Witness ==
    \E w \in Workers :
        /\ pc[w] = "returned"
        /\ \E i, j \in 1..Len(collection) :
               /\ i < j
               /\ collection[j].req = local[w].req
               /\ collection[i].transaction_id = collection[j].transaction_id

\* ------------------------------------------------------------------- C6
\* C6 (Spec): the history read for the anomaly check of a request holds no
\* document of that request, and while a request is at or before its
\* history query the collection holds no document of it.
C6_NeverSeesItself ==
    \A w \in Workers :
        LET f == local[w] IN
        /\ \A i \in 1..Len(f.past_txns) : f.past_txns[i].req # f.req
        /\ f.req > 0 /\ pc[w] \in {"find_recipient", "find_sender", "find_history"} =>
               RecordsOf(f.req) = {}

\* A request has returned that read a non-empty history of its card and
\* whose own document is stored.
C6_Witness ==
    \E w \in Workers :
        /\ pc[w] = "returned"
        /\ local[w].past_txns # <<>>
        /\ RecordsOf(local[w].req) # {}

\* ------------------------------------------------------------------- C7
\* C7 (SpecSeq): a request whose timestamp strptime rejects (among them the
\* ISO form with a T and the 30th of February) fails at the parse: no
\* check has run, and history, blacklist and location maps are what they
\* were when the request was received.
C7_FailsAtParse ==
    \A w \in Workers :
        LET f == local[w] IN
        /\ /\ f.req > 0
           /\ \/ strptime(f.txn.timestamp) = ValueError
              \/ f.txn.timestamp \in {TsIso, TsFeb30}
           => pc[w] = "failed" /\ f.at = "strptime"
        /\ pc[w] = "failed" /\ f.at = "strptime" =>
               /\ f.fired = {} /\ f.reasons = <<>> /\ ~f.is_fraud
               /\ RecordsOf(f.req) = {}
               /\ EntriesBy(f.req) = {}
               /\ last_known_location[w] = f.before

C7_ParseStepFrame ==
    \A w \in Workers :
        pc[w] = "idle" /\ pc'[w] = "failed" =>
            UNCHANGED <<collection, blacklist_collection, last_known_location>>

\* C7: a request with an unparseable timestamp fails at the parse, and the
\* step that fails it leaves history, blacklist and location maps alone.
C7_ParseFailure == [](C7_FailsAtParse) /\ [][C7_ParseStepFrame]_vars

\* A request with an unparseable timestamp has failed in a system whose
\* history, blacklist and location map are not empty.
C7_Witness ==
    \E w \in Workers :
        /\ pc[w] = "failed"
        /\ local[w].at = "strptime"
        /\ collection # <<>>
        /\ Len(blacklist_collection) > Len(startup_blacklisted_accounts)
        /\ DOMAIN last_known_location[w] # {}

\* ------------------------------------------------------------------- C8
\* the location update of the request of process w is in place
LocationApplied(w) ==
    LET f == local[w]
        lkl == last_known_location[w]
    IN  IF f.is_fraud THEN lkl = f.before
        ELSE /\ DOMAIN lkl = DOMAIN f.before \cup {f.txn.card_type}
             /\ lkl[f.txn.card_type] = f.txn.location
             /\ \A c \in DOMAIN f.before \ {f.txn.card_type} : lkl[c] = f.before[c]

\* no side effect of the request of process w is in place
NoEffects(w) ==
    /\ last_known_location[w] = local[w].before
    /\ RecordsOf(local[w].req) = {}
    /\ EntriesBy(local[w].req) = {}

\* C8 as stated (SpecSeq): a request that has failed has left no side
\* effect in place.
C8_NoPartialApplication ==
    \A w \in Workers : pc[w] = "failed" => NoEffects(w)

\* C8 amended (SpecSeq): there is no rollback.  A request that fails at
\* the timestamp parse or at a store read of the detection pass has
\* mutated nothing; one that fails at the history append has applied its
\* location update and nothing else; one that fails at a blacklist lookup
\* or insert has its history document stored, and the blacklist inserts of
\* the accounts before the failing one; one that returns has applied all
\* of its side effects.
C8_PrefixOfEffects ==
    \A w \in Workers :
        LET f == local[w]
            q == f.req
            inserted == {blacklist_collection[i].value : i \in EntriesBy(q)}
        IN
        /\ pc[w] = "failed" /\ f.at \in {"strptime", "find_recipient",
                                         "find_sender", "find_history"} =>
               NoEffects(w)
        /\ pc[w] = "failed" /\ f.at = "insert_txn" =>
               /\ LocationApplied(w)
               /\ RecordsOf(q) = {}
               /\ EntriesBy(q) = {}
        /\ pc[w] = "failed" /\ f.at \in {"bl_find", "bl_insert"} =>
               /\ f.is_fraud
               /\ LocationApplied(w)
               /\ Cardinality(RecordsOf(q)) = 1
               /\ inserted \subseteq {Accounts(f)[k] : k \in 1..(f.account - 1)}
               /\ \A k \in 1..(f.account - 1) : EntriesFor(Accounts(f)[k]) # {}
        /\ pc[w] = "returned" =>
               /\ LocationApplied(w)
               /\ Cardinality(RecordsOf(q)) = 1
               /\ f.is_fraud => \A k \in 1..2 : EntriesFor(Accounts(f)[k]) # {}
               /\ ~f.is_fraud => EntriesBy(q) = {}

\* A non-fraud request has failed at the history append with its location
\* update in place and differing from the map it started with.
C8_Witness ==
    \E w \in Workers :
        /\ pc[w] = "failed"
        /\ local[w].at = "insert_txn"
        /\ ~local[w].is_fraud
        /\ last_known_location[w] # local[w].before

\* ------------------------------------------------------------------- C9
\* C9 (Spec): side effects come after the verdict and in the order
\* location update, history append, recipient insert, sender insert.  A
\* request before its history append has stored no document and no
\* blacklist entry; during the blacklist loop it has written entries only
\* for the accounts before the current one; every blacklist entry written
\* by a request has that request's fraud document in the history; and a
\* request that failed at the first blacklist lookup is recorded as fraud
\* with no blacklist entry written by it.
C9_SideEffectOrder ==
    /\ \A i \in 1..Len(blacklist_collection) :
           blacklist_collection[i].by > 0 =>
               \E j \in RecordsOf(blacklist_collection[i].by) :
                   /\ collection[j].is_fraud
                   /\ collection[j].fraud_reason = blacklist_collection[i].reason
    /\ \A w \in Workers :
           LET f == local[w]
               q == f.req
               inserted == {blacklist_collection[i].value : i \in EntriesBy(q)}
           IN
           /\ q > 0 /\ pc[w] \in {"find_recipient", "find_sender", "find_history",
                                  "update_location"} =>
                  NoEffects(w)
           /\ pc[w] = "insert_txn" =>
                  /\ LocationApplied(w)
                  /\ RecordsOf(q) = {}
                  /\ EntriesBy(q) = {}
           /\ pc[w] \in {"bl_find", "bl_insert"} =>
                  /\ f.is_fraud
                  /\ RecordsOf(q) # {}
                  /\ inserted \subseteq {Accounts(f)[k] : k \in 1..(f.account - 1)}
           /\ pc[w] = "failed" /\ f.at = "bl_find" /\ f.account = 1 =>
                  /\ \E j \in RecordsOf(q) : collection[j].is_fraud
                  /\ EntriesBy(q) = {}
           /\ pc[w] = "returned" /\ ~f.is_fraud => EntriesBy(q) = {}

\* A fraud request has failed between its history append and its first
\* blacklist insert: it is recorded as fraud and neither of its accounts
\* is blacklisted.
C9_Witness ==
    \E w \in Workers :
        /\ pc[w] = "failed"
        /\ local[w].at \in {"bl_find", "bl_insert"}
        /\ local[w].account = 1
        /\ \E j \in RecordsOf(local[w].req) : collection[j].is_fraud
        /\ \A k \in 1..2 : EntriesFor(Accounts(local[w])[k]) = {}

\* ------------------------------------------------------------------ C10
\* C10 (SpecSeq): a request from a blacklisted IP for which no other check
\* fired returns fraud with the single reason "Blacklisted IP Address:
\* <ip>", and then the recipient and the sender each have a blacklist
\* entry whose reason list is that list.
C10_BlacklistedIpEndToEnd ==
    \A w \in Workers :
        LET f == local[w] IN
        /\ pc[w] = "returned"
        /\ f.client_ip \in BLACKLISTED_IPS
        /\ f.fired \subseteq {"ip"}
        => /\ f.is_fraud
           /\ f.reasons = << <<"Blacklisted IP Address: ", f.client_ip>> >>
           /\ \A a \in {f.txn.recipient_account_number, f.txn.sender_account_number} :
                  \E i \in EntriesFor(a) :
                      blacklist_collection[i].reason = f.reasons

\* Such a request has returned, from an address of the blacklisted set,
\* with two different accounts that it blacklisted itself.
C10_Witness ==
    \E w \in Workers :
        /\ pc[w] = "returned"
        /\ local[w].client_ip = "203.0.113.5"
        /\ local[w].fired = {"ip"}
        /\ local[w].txn.recipient_account_number # local[w].txn.sender_account_number
        /\ Cardinality(EntriesBy(local[w].req)) = 2

\* ------------------------------------------------------------------ C11
\* the step appends exactly one document to the account blacklist
AppendsEntry ==
    /\ Len(blacklist_collection') = Len(blacklist_collection) + 1
    /\ \A i \in 1..Len(blacklist_collection) :
           blacklist_collection'[i] = blacklist_collection[i]

\* the appended document was written for the request of a process whose
\* verdict is fraud, at the blacklist insert of that request
ByFraudVerdict ==
    \E w \in Workers :
        /\ pc[w] = "bl_insert"
        /\ local[w].is_fraud
        /\ blacklist_collection'[Len(blacklist_collection')].by = local[w].req

\* the appended document was written by the startup seeding of a process
BySeeding ==
    \E w \in Workers :
        /\ pc[w] = "seed_insert"
        /\ blacklist_collection'[Len(blacklist_collection')].by = 0

C11_NonFraudWritesNothing ==
    \A w \in Workers :
        local[w].req > 0 /\ ~local[w].is_fraud => EntriesBy(local[w].req) = {}

C11_OnlyFraudAppends ==
    \/ blacklist_collection' = blacklist_collection
    \/ AppendsEntry /\ (ByFraudVerdict \/ BySeeding)

\* C11 (Spec): a request whose verdict is not fraud has written no entry
\* of the account blacklist, at any point of its evaluation; every step
\* that changes the account blacklist appends one entry and is the
\* blacklist insert of a request whose verdict is fraud (or the insert of
\* the startup seeding); no step removes or changes an entry.  The
\* blacklisted-IP set and the location directory are constants of the
\* module: no step can change them.
C11_BlacklistFrame ==
    [](C11_NonFraudWritesNothing) /\ [][C11_OnlyFraudAppends]_vars

\* A non-fraud request has returned while the account blacklist holds
\* entries written by the fraud verdict of another request.
C11_Witness ==
    \E w \in Workers :
        /\ pc[w] = "returned"
        /\ ~local[w].is_fraud
        /\ \E i \in 1..Len(blacklist_collection) :
               /\ blacklist_collection[i].by > 0
               /\ blacklist_collection[i].by # local[w].req

\* ------------------------------------------------------------------ C12
\* the amounts of the anomaly window of a history read: the last five,
\* fewer if the history is shorter
WindowOf(txns) ==
    LET k == IF Len(txns) < 5 THEN Len(txns) ELSE 5
    IN  [i \in 1..k |-> txns[Len(txns) - k + i].amount]

\* the population variance of the amounts is zero: they are all equal
ZeroVariance(amounts) ==
    \A i, j \in 1..Len(amounts) : amounts[i] = amounts[j]

\* |current - mean| / std > 2.5 for the mean and the population standard
\* deviation of the amounts, as 4 * (n*current - S)^2 > 25 * (n*Q - S^2)
AboveThreshold(amounts, current) ==
    LET n == Len(amounts)
        S == Sum(amounts)
        Q == SumSq(amounts)
    IN  4 * (n * current - S) * (n * current - S) > 25 * (n * Q - S * S)

\* C12 (SpecAnomaly): claim as stated - the anomaly check of a request
\* fires if and only if its window has at least 2 amounts, the population
\* standard deviation of the window is not zero, and |current - mean| /
\* std is strictly greater than 2.5; so it never fires for a window of
\* fewer than 2 amounts, and never for a window of equal amounts.
C12_FlagsIffAboveThreshold ==
    \A w \in Workers :
        pc[w] \in AfterChecks =>
            LET amounts == WindowOf(local[w].past_txns)
                current == local[w].txn.amount
                flagged == "anomaly" \in local[w].fired
            IN  /\ flagged <=> /\ Len(amounts) >= 2
                               /\ ~ZeroVariance(amounts)
                               /\ AboveThreshold(amounts, current)
                /\ Len(amounts) < 2 => ~flagged
                /\ ZeroVariance(amounts) => ~flagged

\* ------------------------------------------------------------------ C13
\* the window 10, 20, 10, 20, 10
Window13 == <<Whole(10), Whole(20), Whole(10), Whole(20), Whole(10)>>

\* n times the mean of the amounts, and n^2 times their population
\* variance
MeanN(amounts) == Sum(amounts)
VarNN(amounts) == Len(amounts) * SumSq(amounts) - Sum(amounts) * Sum(amounts)
\* n times (current - mean)
DevN(amounts, current) == Len(amounts) * current - Sum(amounts)

\* C13 as stated (SpecAnomaly): for the window 10, 20, 10, 20, 10 and the
\* current amount 200 the mean is 14, the population standard deviation
\* is 5 (the variance 25), the z-score is 37.2 (its square (186/5)^2) and
\* the anomaly check fires.
C13_Sigma5 ==
    \A w \in Workers :
        /\ pc[w] \in AfterChecks
        /\ WindowOf(local[w].past_txns) = Window13
        /\ local[w].txn.amount = Whole(200)
        => /\ MeanN(Window13) = 5 * Whole(14)
           /\ VarNN(Window13) = 5 * 5 * Whole(5) * Whole(5)
           /\ 5 * 5 * DevN(Window13, Whole(200)) * DevN(Window13, Whole(200))
                  = 186 * 186 * VarNN(Window13)
           /\ "anomaly" \in local[w].fired

\* C13 amended (SpecAnomaly): for the window 10, 20, 10, 20, 10 and the
\* current amount 200 the mean is 14, the population variance is 24 (the
\* standard deviation is its root, 4.899), the square of the z-score is
\* 186^2 / 24 = 1441.5 (the z-score is 37.97, between 37 and 38), and the
\* anomaly check fires: the verdict is fraud with the reason "Abnormal
\* Amount (Behavioral)".
C13_Sigma24 ==
    \A w \in Workers :
        /\ pc[w] \in AfterChecks
        /\ WindowOf(local[w].past_txns) = Window13
        /\ local[w].txn.amount = Whole(200)
        => /\ MeanN(Window13) = 5 * Whole(14)
           /\ VarNN(Window13) = 5 * 5 * 24 * AmountScale * AmountScale
           /\ 2 * DevN(Window13, Whole(200)) * DevN(Window13, Whole(200))
                  = 2883 * VarNN(Window13)
           /\ 37 * 37 * VarNN(Window13)
                  < DevN(Window13, Whole(200)) * DevN(Window13, Whole(200))
           /\ DevN(Window13, Whole(200)) * DevN(Window13, Whole(200))
                  < 38 * 38 * VarNN(Window13)
           /\ "anomaly" \in local[w].fired
           /\ local[w].is_fraud
           /\ \E i \in 1..Len(local[w].reasons) : local[w].reasons[i] = ReasonAnomaly

\* A request of amount 200 has returned whose window was 10, 20, 10, 20,
\* 10, with the anomaly check as the only one that fired.
C13_Witness ==
    \E w \in Workers :
        /\ pc[w] = "returned"
        /\ WindowOf(local[w].past_txns) = Window13
        /\ local[w].txn.amount = Whole(200)
        /\ local[w].fired = {"anomaly"}

\* ------------------------------------------------------------------ C14
\* C14 (SpecGeo): the geo-drift check of a request fires if and only if
\* the transaction's location is in the location directory, the map held
\* a last-known location for its card when the request was evaluated,
\* that location is in the directory too, and the two are more than 500
\* km apart.  So a location outside the directory never fires it; with
\* last-known location Chennai a transaction at Delhi fires it and one at
\* Bangalore does not.
C14_GeoDriftIff ==
    \A w \in Workers :
        pc[w] \in AfterChecks =>
            LET f == local[w]
                current == f.txn.location
                known == f.txn.card_type \in DOMAIN f.before
                last == f.before[f.txn.card_type]
                flagged == "geo_drift" \in f.fired
            IN  /\ flagged <=> /\ current \in location_lookup
                               /\ known
                               /\ last \in location_lookup
                               /\ geodesic(last, current) > 500
                /\ current \notin location_lookup => ~flagged
                /\ known /\ last = "Chennai" /\ current = "Delhi" => flagged
                /\ known /\ last = "Chennai" /\ current = "Bangalore" => ~flagged

\* A request at Bangalore has returned, not flagged, whose card had
\* Chennai as last-known location, after a request at Delhi with the same
\* baseline was stored with the reason "Geo Drift Detected".
C14_Witness ==
    \E w \in Workers :
        /\ pc[w] = "returned"
        /\ local[w].txn.location = "Bangalore"
        /\ local[w].txn.card_type \in DOMAIN local[w].before
        /\ local[w].before[local[w].txn.card_type] = "Chennai"
        /\ "geo_drift" \notin local[w].fired
        /\ \E i \in 1..Len(collection) :
               /\ collection[i].location = "Delhi"
               /\ \E k \in 1..Len(collection[i].fraud_reason) :
                      collection[i].fraud_reason[k] = ReasonGeoDrift

\* ------------------------------------------------------------------ C15
\* C15 (SpecGeo): the odd-hour check of a request fires if and only if
\* the hour of the transaction's timestamp is 0, 1, 2 or 3: it fires for
\* the timestamp of hour 2, and for neither the one of hour 4 nor the one
\* of hour 23; and a request for which it fired has the verdict fraud and
\* the reason "Transaction During Odd Hours (12 AM - 4 AM)", whether or
\* not another check fired.
C15_OddHour ==
    \A w \in Workers :
        pc[w] \in AfterChecks =>
            LET f == local[w]
                h == strptime(f.txn.timestamp)[4]
                flagged == "odd_hour" \in f.fired
            IN  /\ flagged <=> h \in {0, 1, 2, 3}
                /\ f.txn.timestamp = TsNight => h = 2 /\ flagged
                /\ f.txn.timestamp = TsEarlier => h = 4 /\ ~flagged
                /\ f.txn.timestamp = TsLate => h = 23 /\ ~flagged
                /\ flagged =>
                       /\ f.is_fraud
                       /\ \E i \in 1..Len(f.reasons) : f.reasons[i] = ReasonOddHour

\* A request of hour 2 has returned with the verdict fraud and the
\* odd-hour check as the only one that fired, while the history holds
\* the documents of a request of hour 4 and of a request of hour 23 that
\* were stored with no reason.
C15_Witness ==
    \E w \in Workers :
        /\ pc[w] = "returned"
        /\ local[w].fired = {"odd_hour"}
        /\ local[w].is_fraud
        /\ local[w].reasons = <<ReasonOddHour>>
        /\ \E i, j \in 1..Len(collection) :
               /\ collection[i].timestamp[4] = 4
               /\ collection[i].fraud_reason = <<>>
               /\ collection[j].timestamp[4] = 23
               /\ collection[j].fraud_reason = <<>>

\* ------------------------------------------------------------------ C16
\* the request of process w is past its location update
PastUpdate(w) ==
    \/ pc[w] \in {"insert_txn", "bl_find", "bl_insert", "returned"}
    \/ pc[w] = "failed" /\ local[w].at \in {"insert_txn", "bl_find", "bl_insert"}

\* the requests of processes w and v overlap, are of one card, have both
\* the verdict not fraud and have both written their location
OverlappingWrites(w, v) ==
    /\ w # v
    /\ PastUpdate(w) /\ PastUpdate(v)
    /\ ~local[w].is_fraud /\ ~local[v].is_fraud
    /\ local[w].txn.card_type = local[v].txn.card_type

\* C16 as stated (SpecRace): when two non-fraud evaluations of one card
\* overlap and both have written, the card has one last-known location,
\* the location of one of the two (the one that wrote last): every map
\* that holds the card holds that location.
C16_LastWriterWins ==
    \A w, v \in Workers :
        OverlappingWrites(w, v) =>
            \E e \in {w, v} :
                \A p \in {w, v} :
                    last_known_location[p][local[p].txn.card_type]
                        = local[e].txn.location

\* C16 amended (SpecRace): evaluations overlap only across processes, and
\* each process reads and writes its own map.  From the moment a request
\* is received to its location write, the map of its process is what it
\* was when the request was received: no write of another evaluation
\* falls between the geo-drift read and the write.  After the write of a
\* non-fraud evaluation the map of its process holds that evaluation's
\* location for the card, whatever an overlapping evaluation of another
\* process wrote to its own map and whatever the timestamps of the two
\* transactions.
C16_OwnMapOnly ==
    \A w \in Workers :
        LET f == local[w] IN
        /\ f.req > 0 /\ ~PastUpdate(w) =>
               last_known_location[w] = f.before
        /\ PastUpdate(w) /\ ~f.is_fraud =>
               /\ f.txn.card_type \in DOMAIN last_known_location[w]
               /\ last_known_location[w][f.txn.card_type] = f.txn.location
               /\ \A c \in DOMAIN f.before \ {f.txn.card_type} :
                      last_known_location[w][c] = f.before[c]

\* Two non-fraud evaluations of one card overlap and have both written:
\* the two maps hold different locations for the card, and the map of the
\* evaluation that was received first holds the location of the
\* transaction with the later timestamp.
C16_Witness ==
    \E w, v \in Workers :
        /\ OverlappingWrites(w, v)
        /\ local[w].req < local[v].req
        /\ Before(local[v].now, local[w].now)
        /\ last_known_location[w]["visa"] = "Chennai"
        /\ last_known_location[v]["visa"] = "Delhi"

\* ------------------------------------------------------------------ C17
\* the stored documents of a card
StoredOf(card_type) ==
    {collection[i] : i \in {j \in 1..Len(collection) :
                                collection[j].card_type = card_type}}

\* the documents of a set, as a sequence in some order
RECURSIVE AsSeq(_)
AsSeq(S) ==
    IF S = {} THEN <<>>
    ELSE LET d == CHOOSE x \in S : TRUE IN <<d>> \o AsSeq(S \ {d})

\* C17 (SpecAnomaly): when the anomaly check of a request has run, the
\* history it read is all the stored documents of the transaction's card,
\* of fraud and non-fraud verdicts alike, in ascending order of their
\* timestamps; its window is the last 5 of them (all, if fewer): no
\* document outside the window has a timestamp after one inside, and a
\* document with 5 or more stored documents of the card after it, by
\* timestamp, is outside the window even when it was the last to arrive;
\* and the check fired exactly when the detector flags the current
\* amount against the documents of that window.
C17_WindowByTimestamp ==
    \A w \in Workers :
        pc[w] = "update_location" =>
            LET f == local[w]
                past == f.past_txns
                recs == StoredOf(f.txn.card_type)
                k == IF Cardinality(recs) < 5 THEN Cardinality(recs) ELSE 5
                win == {past[j] : j \in (Len(past) - k + 1)..Len(past)}
            IN  /\ Len(past) = Cardinality(recs)
                /\ {past[j] : j \in 1..Len(past)} = recs
                /\ \A i, j \in 1..Len(past) :
                       i < j => ~Before(past[j].timestamp, past[i].timestamp)
                /\ Cardinality(win) = k
                /\ \A d \in win : \A e \in recs \ win :
                       ~Before(d.timestamp, e.timestamp)
                /\ \A e \in recs :
                       Cardinality({d \in recs : Before(e.timestamp, d.timestamp)}) >= 5
                           => e \notin win
                /\ "anomaly" \in f.fired
                       <=> detect_behavioral_anomaly(AsSeq(win), f.txn.amount)

\* The anomaly check of a request has run on a card with six stored
\* documents, the last of which to arrive carries the oldest timestamp:
\* that document is not in the window, the first to arrive is, and the
\* window holds documents of both verdicts.
C17_Witness ==
    \E w \in Workers :
        /\ pc[w] = "update_location"
        /\ Len(collection) = 6
        /\ Len(local[w].past_txns) = 6
        /\ local[w].past_txns[1] = collection[6]
        /\ local[w].past_txns[2] = collection[1]
        /\ \E i, j \in 2..6 :
               /\ local[w].past_txns[i].is_fraud
               /\ ~local[w].past_txns[j].is_fraud

\* ------------------------------------------------------------------ C18
\* C18 (SpecGeo): once a non-fraud request whose location is not in the
\* location directory has written its location, that name is the
\* last-known location of its card; and the geo-drift check of a request
\* that is evaluated while the last-known location of its card is a name
\* outside the directory does not fire, whatever the location of the
\* request.
C18_UnknownBaseline ==
    \A w \in Workers :
        LET f == local[w]
            card == f.txn.card_type
        IN  /\ /\ PastUpdate(w)
               /\ ~f.is_fraud
               /\ f.txn.location \notin location_lookup
               => /\ card \in DOMAIN last_known_location[w]
                  /\ last_known_location[w][card] = f.txn.location
            /\ /\ pc[w] \in AfterChecks
               /\ card \in DOMAIN f.before
               /\ f.before[card] \notin location_lookup
               => "geo_drift" \notin f.fired

\* A request at Delhi has returned with the verdict not fraud, evaluated
\* while the last-known location of its card was Paris, on a card whose
\* earlier accepted transaction at Chennai is stored: Delhi is now the
\* last-known location.
C18_Witness ==
    \E w \in Workers :
        /\ pc[w] = "returned"
        /\ local[w].txn.location = "Delhi"
        /\ ~local[w].is_fraud
        /\ "visa" \in DOMAIN local[w].before
        /\ local[w].before["visa"] = "Paris"
        /\ last_known_location[w]["visa"] = "Delhi"
        /\ \E i, j \in 1..Len(collection) :
               /\ i < j
               /\ collection[i].location = "Chennai" /\ ~collection[i].is_fraud
               /\ collection[j].location = "Paris" /\ ~collection[j].is_fraud

\* ------------------------------------------------------------------ C19
\* the account had a blacklist entry before the request of process w was
\* received: an entry written by the seeding or by another request (in
\* SpecSeq no other process writes while the request of w runs)
ListedBefore(w, account) ==
    \E i \in EntriesFor(account) : blacklist_collection[i].by # local[w].req

C19_Propagates ==
    \A w \in Workers :
        LET f == local[w]
            recipient == f.txn.recipient_account_number
            sender == f.txn.sender_account_number
        IN  pc[w] = "returned" =>
                /\ ListedBefore(w, recipient) =>
                       /\ f.is_fraud
                       /\ \E i \in 1..Len(f.reasons) :
                              f.reasons[i] = <<"Blacklisted Recipient Account: ", recipient>>
                       /\ EntriesFor(sender) # {}
                /\ ListedBefore(w, sender) =>
                       /\ f.is_fraud
                       /\ \E i \in 1..Len(f.reasons) :
                              f.reasons[i] = <<"Blacklisted Sender Account: ", sender>>
                       /\ EntriesFor(recipient) # {}

C19_EntryStays ==
    \A i \in 1..Len(blacklist_collection) :
        /\ i <= Len(blacklist_collection')
        /\ blacklist_collection'[i].value = blacklist_collection[i].value

\* C19 (SpecSeq): an account that has a blacklist entry has one in every
\* later state; every request that returns and names as recipient or as
\* sender an account that had an entry before it (written by the seeding
\* or after the fraud verdict of an earlier request) has the verdict
\* fraud with the reason "Blacklisted Recipient Account: <account>" or
\* "Blacklisted Sender Account: <account>", and when it returns the other
\* account of its transaction has an entry too.
C19_PermanentAndPropagates ==
    [](C19_Propagates) /\ [][C19_EntryStays]_vars

\* A request has returned whose recipient was blacklisted by the fraud
\* verdict of an earlier request, that no other check flagged, and whose
\* sender has been blacklisted by this request.
C19_Witness ==
    \E w \in Workers :
        LET f == local[w] IN
        /\ pc[w] = "returned"
        /\ f.fired = {"recipient"}
        /\ \E i \in EntriesFor(f.txn.recipient_account_number) :
               /\ blacklist_collection[i].by > 0
               /\ blacklist_collection[i].by < f.req
        /\ \E i \in EntriesFor(f.txn.sender_account_number) :
               blacklist_collection[i].by = f.req

\* ------------------------------------------------------------------ C20
\* the step of process w is the location write of a non-fraud request,
\* and writes the request's location for card c
WritesLocation(w, c) ==
    /\ pc[w] = "update_location"
    /\ ~local[w].is_fraud
    /\ local[w].txn.card_type = c
    /\ c \in DOMAIN last_known_location'[w]
    /\ last_known_location'[w][c] = local[w].txn.location

\* the step changes the last-known location of card c in the map of
\* process w, which was the directory location L, in an allowed way: a
\* non-fraud request writes a directory location within 500 km of L, or
\* a location outside the directory
NearOrUnknown(w, c) ==
    LET L == last_known_location[w][c] IN
    /\ WritesLocation(w, c)
    /\ last_known_location'[w][c] \in location_lookup =>
           geodesic(L, last_known_location'[w][c]) <= 500

\* the step is the restart of process w: its map is emptied
IsRestart(w) ==
    /\ pc[w] = "idle" /\ pc'[w] = "seed_find"
    /\ last_known_location'[w] = EmptyDict

\* the stored documents of accepted (non-fraud) transactions of card c
\* that were stored before request q
AcceptedBefore(c, q) ==
    {i \in 1..Len(collection) :
        /\ collection[i].card_type = c
        /\ ~collection[i].is_fraud
        /\ collection[i].req < q}

\* C20 as stated (SpecGeo): the service runs as one process, so that
\* evaluations do not overlap.  When a transaction at Mumbai or Delhi is
\* accepted and becomes the last-known location of its card, and the
\* card's latest accepted transaction before it was at Chennai or
\* Bangalore, then a non-fraud transaction at a location outside the
\* directory came in between: the baseline the request was evaluated
\* against was a name outside the directory.
C20_NeverFarFromBaseline ==
    LET f == local[Main]
        c == f.txn.card_type
        earlier == AcceptedBefore(c, f.req)
    IN  /\ PastUpdate(Main)
        /\ ~f.is_fraud
        /\ f.txn.location \in {"Mumbai", "Delhi"}
        /\ earlier # {}
        => LET latest == CHOOSE i \in earlier : \A j \in earlier : j <= i
           IN  collection[latest].location \in {"Chennai", "Bangalore"} =>
                   /\ c \in DOMAIN f.before
                   /\ f.before[c] \notin location_lookup

C20_StepNearOrUnknownOrRestart ==
    \A w \in Workers :
        \A c \in DOMAIN last_known_location[w] :
            last_known_location[w][c] \in location_lookup =>
                \/ /\ c \in DOMAIN last_known_location'[w]
                   /\ last_known_location'[w][c] = last_known_location[w][c]
                \/ NearOrUnknown(w, c)
                \/ IsRestart(w)

C20_FarIsFraud ==
    \A w \in Workers :
        LET f == local[w]
            c == f.txn.card_type
        IN  /\ pc[w] \in AfterChecks
            /\ c \in DOMAIN f.before
            /\ f.before[c] \in location_lookup
            /\ f.txn.location \in location_lookup
            /\ geodesic(f.before[c], f.txn.location) > 500
            => /\ f.is_fraud
               /\ PastUpdate(w) => last_known_location[w][c] = f.before[c]

\* C20 amended (SpecGeo): a transaction at a directory location farther
\* than 500 km from the directory location L that is the baseline of its
\* card is judged fraud and leaves the baseline at L; and every step that
\* changes a baseline that is a directory location L is either the
\* location write of a non-fraud request, to a directory location within
\* 500 km of L or to a location outside the directory, or the restart of
\* the process, which empties the map: after a restart the first
\* accepted transaction of a card sets its baseline whatever the
\* distance.
C20_DriftBound ==
    [](C20_FarIsFraud) /\ [][C20_StepNearOrUnknownOrRestart]_vars

\* A non-fraud request at Bangalore has returned whose card had the
\* baseline Chennai: the baseline is now Bangalore, 290 km away.
C20_Witness ==
    /\ pc[Main] = "returned"
    /\ ~local[Main].is_fraud
    /\ "visa" \in DOMAIN local[Main].before
    /\ local[Main].before["visa"] = "Chennai"
    /\ last_known_location[Main]["visa"] = "Bangalore"

====
